---- MODULE Spec2Model ----
(***************************************************************************)
(* A model of the pypdftotext Go client (package pdfclient): construction  *)
(* of a Client from a base URL and options, the request methods, and the   *)
(* classifier predicates of ClientError.                                   *)
(*                                                                         *)
(* Go strings are TLA+ strings; a character is a string of length one.     *)
(***************************************************************************)
EXTENDS Integers, Sequences, FiniteSets, TLC

VARIABLES
    e,          \* the ClientError value handed to the classifier predicates
    verdict,    \* what the five predicates returned for e (Nil before)
    baseURL,    \* NewClient's argument baseURL
    options,    \* NewClient's arguments options, a sequence
    client,     \* the *Client NewClient returned (Nil before, and on error)
    err,        \* the error NewClient returned
    applied,    \* the options NewClient has called so far
    calls,      \* the method calls made on client: per call, where it stands,
                \* its arguments and locals, and what it has done to the world
    response,   \* the extraction response GetFullText is called on
    fullText    \* what GetFullText returned for response (Nil before)

vars == <<e, verdict, baseURL, options, client, err, applied, calls, response, fullText>>
accessorVars == <<response, fullText>>
classifyVars == <<e, verdict>>
newClientVars == <<baseURL, options, client, err, applied>>

\* Go's nil, for the pointers, errors and results of the model (all records).
Nil == [nil |-> TRUE]

-----------------------------------------------------------------------------
(* Strings: the functions of Go's package strings the client calls.        *)

Char(s, i) == SubSeq(s, i, i)

\* strings.Contains(s, substr): substr occurs in s, byte for byte.
Contains(s, substr) ==
    \E i \in 0..(Len(s) - Len(substr)) : SubSeq(s, i + 1, i + Len(substr)) = substr

HasPrefix(s, prefix) ==
    Len(s) >= Len(prefix) /\ SubSeq(s, 1, Len(prefix)) = prefix

HasSuffix(s, suffix) ==
    Len(s) >= Len(suffix) /\ SubSeq(s, Len(s) - Len(suffix) + 1, Len(s)) = suffix

\* strings.TrimSuffix(s, suffix): s without ONE trailing suffix.
TrimSuffix(s, suffix) ==
    IF HasSuffix(s, suffix) THEN SubSeq(s, 1, Len(s) - Len(suffix)) ELSE s

\* strings.Index(s, substr), 1-based; 0 when substr does not occur in s.
Index(s, substr) ==
    IF Contains(s, substr)
    THEN CHOOSE i \in 1..(Len(s) - Len(substr) + 1) :
            /\ SubSeq(s, i, i + Len(substr) - 1) = substr
            /\ \A j \in 1..(i - 1) : SubSeq(s, j, j + Len(substr) - 1) # substr
    ELSE 0

UpperLetters == "ABCDEFGHIJKLMNOPQRSTUVWXYZ"
LowerLetters == "abcdefghijklmnopqrstuvwxyz"

\* The lower-case letter of every upper-case letter, and the other way round.
LowerOf == [c \in {Char(UpperLetters, i) : i \in 1..Len(UpperLetters)} |->
               Char(LowerLetters, CHOOSE i \in 1..Len(UpperLetters) : Char(UpperLetters, i) = c)]
UpperOf == [c \in {Char(LowerLetters, i) : i \in 1..Len(LowerLetters)} |->
               Char(UpperLetters, CHOOSE i \in 1..Len(LowerLetters) : Char(LowerLetters, i) = c)]

LowerChar(c) == IF c \in DOMAIN LowerOf THEN LowerOf[c] ELSE c
UpperChar(c) == IF c \in DOMAIN UpperOf THEN UpperOf[c] ELSE c

RECURSIVE ToLower(_)
ToLower(s) == IF s = "" THEN "" ELSE LowerChar(Char(s, 1)) \o ToLower(SubSeq(s, 2, Len(s)))

RECURSIVE ToUpper(_)
ToUpper(s) == IF s = "" THEN "" ELSE UpperChar(Char(s, 1)) \o ToUpper(SubSeq(s, 2, Len(s)))

\* strings.Contains after folding both sides to lower case.
ContainsFold(s, substr) == Contains(ToLower(s), ToLower(substr))

-----------------------------------------------------------------------------
(* ClientError and its classifier predicates.                              *)

StatusOK == 200
StatusBadRequest == 400
StatusForbidden == 403
StatusNotFound == 404
StatusRequestTimeout == 408
StatusRequestEntityTooLarge == 413

ClientError(status, message, detail) ==
    [StatusCode |-> status, Message |-> message, Detail |-> detail]

IsInvalidPDFError(ce) ==
    /\ ce.StatusCode = StatusBadRequest
    /\ \/ Contains(ce.Detail, "PDF file has syntax errors")
       \/ Contains(ce.Detail, "PDF file appears to be corrupted")
       \/ Contains(ce.Detail, "PDF file is incomplete or truncated")
       \/ Contains(ce.Detail, "Invalid PDF format")
       \/ Contains(ce.Detail, "file does not appear to be a valid PDF")

\* IsTimeoutError as a conjunction of status and detail.
IsTimeoutError_Conj(ce) ==
    /\ ce.StatusCode = StatusRequestTimeout
    /\ Contains(ce.Detail, "timed out")

IsTimeoutError(ce) ==
    \/ ce.StatusCode = StatusRequestTimeout
    \/ Contains(ce.Detail, "timed out")

IsFileSizeError(ce) ==
    \/ ce.StatusCode = StatusRequestEntityTooLarge
    \/ Contains(ce.Detail, "File too large")

IsGCSPermissionError(ce) ==
    /\ ce.StatusCode = StatusForbidden
    /\ Contains(ce.Detail, "Permission denied")

\* IsGCSNotFoundError with the disjunctive shape of IsTimeoutError.
IsGCSNotFoundError_Disj(ce) ==
    \/ ce.StatusCode = StatusNotFound
    \/ (Contains(ce.Detail, "not found") \/ Contains(ce.Detail, "does not exist"))

\* IsGCSNotFoundError matching the detail without regard to letter case.
IsGCSNotFoundError_Fold(ce) ==
    /\ ce.StatusCode = StatusNotFound
    /\ (ContainsFold(ce.Detail, "not found") \/ ContainsFold(ce.Detail, "does not exist"))

IsGCSNotFoundError(ce) ==
    /\ ce.StatusCode = StatusNotFound
    /\ (Contains(ce.Detail, "not found") \/ Contains(ce.Detail, "does not exist"))

\* The five answers for one error value.
Verdict(ce) ==
    [invalidPDF    |-> IsInvalidPDFError(ce),
     timeout       |-> IsTimeoutError(ce),
     fileSize      |-> IsFileSizeError(ce),
     gcsPermission |-> IsGCSPermissionError(ce),
     gcsNotFound   |-> IsGCSNotFoundError(ce)]

-----------------------------------------------------------------------------
(* The error values the predicates are applied to: any status of interest  *)
(* with a detail text put together from at most MaxFrags of the fragments below.        *)

MaxFrags == 2

ErrorStatuses ==
    {StatusBadRequest, StatusForbidden, StatusNotFound, StatusRequestTimeout,
     StatusRequestEntityTooLarge, 500}

DetailFragments ==
    <<"PDF file has syntax errors", "PDF file appears to be corrupted",
      "PDF file is incomplete or truncated", "Invalid PDF format",
      "file does not appear to be a valid PDF",
      "syntax errors", "corrupted",
      "timed out", "File too large", "Permission denied", "not found",
      "Blob does not exist",
      "permission denied", "Not Found", "Request Timed Out", "file too large",
      "Internal server error", "gs://bucket/file.pdf">>

JoinDetail(d, rest) == IF rest = "" THEN d ELSE d \o ": " \o rest

\* The texts made of at most n fragments, taken in the order of DetailFragments
\* from position first on.
RECURSIVE DetailsFrom(_, _)
DetailsFrom(n, first) ==
    IF n = 0 THEN {""}
    ELSE {""} \cup {JoinDetail(DetailFragments[i], rest) :
                        <<i, rest>> \in
                            UNION {{i} \X DetailsFrom(n - 1, i + 1) :
                                       i \in first..Len(DetailFragments)}}

Details == DetailsFrom(MaxFrags, 1)

NoError == ClientError(0, "", "")

InitClassify ==
    /\ e \in {ClientError(s, "", d) : s \in ErrorStatuses, d \in Details}
    /\ verdict = Nil
    /\ response = Nil /\ fullText = Nil
    /\ baseURL = "" /\ options = <<>> /\ client = Nil /\ err = Nil /\ applied = <<>>
    /\ calls = <<>>

\* A caller asks the five predicates about e.
Classify ==
    /\ verdict = Nil
    /\ verdict' = Verdict(e)
    /\ UNCHANGED <<e, newClientVars, calls, accessorVars>>

NextClassify == Classify

SpecClassify == InitClassify /\ [][NextClassify]_vars

-----------------------------------------------------------------------------
(* net/url, as far as NewClient uses it: url.Parse and URL.String.      *)
(* Percent-escapes are validated as Parse validates them; the inputs of    *)
(* the model hold no valid escape and no character that String would       *)
(* escape, so unescaping and escaping leave every accepted text as it is.   *)

Letters == UpperLetters \o LowerLetters
Digits == "0123456789"
HexDigits == "0123456789abcdefABCDEF"

IsIn(c, chars) == \E i \in 1..Len(chars) : Char(chars, i) = c

\* strings.Cut(s, sep): the text before and after the first sep.
CutBefore(s, sep) == IF Contains(s, sep) THEN SubSeq(s, 1, Index(s, sep) - 1) ELSE s
CutAfter(s, sep) ==
    IF Contains(s, sep) THEN SubSeq(s, Index(s, sep) + Len(sep), Len(s)) ELSE ""

\* strings.LastIndex(s, c) for a character c, 1-based; 0 when c is not in s.
LastIndex(s, c) ==
    IF \E i \in 1..Len(s) : Char(s, i) = c
    THEN CHOOSE i \in 1..Len(s) :
            Char(s, i) = c /\ \A j \in (i + 1)..Len(s) : Char(s, j) # c
    ELSE 0

\* strings.Count(s, c) for a character c.
Count(s, c) == Cardinality({i \in 1..Len(s) : Char(s, i) = c})

\* The positions of rawURL whose character cannot belong to a scheme.
SchemeStops(rawURL) ==
    {i \in 1..Len(rawURL) :
        ~(\/ IsIn(Char(rawURL, i), Letters)
          \/ i > 1 /\ IsIn(Char(rawURL, i), Digits \o "+-."))}

\* The least member of S, none if S is empty.
First(S, none) == IF S = {} THEN none ELSE CHOOSE i \in S : \A j \in S : i <= j

\* url.getScheme, its loop having stopped at position k: [scheme, rest, err].
schemeAt(rawURL, k) ==
    IF k <= Len(rawURL) /\ Char(rawURL, k) = ":"
    THEN IF k = 1
         THEN [scheme |-> "", rest |-> "", err |-> "missing protocol scheme"]
         ELSE [scheme |-> SubSeq(rawURL, 1, k - 1),
               rest |-> SubSeq(rawURL, k + 1, Len(rawURL)), err |-> ""]
    ELSE [scheme |-> "", rest |-> rawURL, err |-> ""]

\* url.getScheme.
getScheme(rawURL) == schemeAt(rawURL, First(SchemeStops(rawURL), Len(rawURL) + 1))

\* url.unescape, the validation: every % starts a two-digit hexadecimal escape; in a
\* host only %25 and the escapes of non-ASCII bytes are allowed.
BadEscape(s, inHost) ==
    \E i \in 1..Len(s) :
        /\ Char(s, i) = "%"
        /\ \/ i + 2 > Len(s)
           \/ ~IsIn(Char(s, i + 1), HexDigits)
           \/ ~IsIn(Char(s, i + 2), HexDigits)
           \/ inHost /\ IsIn(Char(s, i + 1), "01234567") /\ SubSeq(s, i, i + 2) # "%25"

\* url.validOptionalPort.
validOptionalPort(port) ==
    \/ port = ""
    \/ /\ Char(port, 1) = ":"
       /\ \A i \in 2..Len(port) : IsIn(Char(port, i), Digits)

\* url.parseHost, for the hosts without brackets: the error, "" if none.
parseHostErr(host) ==
    IF LastIndex(host, ":") # 0
          /\ ~validOptionalPort(SubSeq(host, LastIndex(host, ":"), Len(host)))
    THEN "invalid port after host"
    ELSE IF BadEscape(host, TRUE) THEN "invalid URL escape" ELSE ""

EmptyURL ==
    [Scheme |-> "", Opaque |-> "", Host |-> "", Path |-> "", ForceQuery |-> FALSE,
     RawQuery |-> "", Fragment |-> "", err |-> ""]

\* url.parse, its last step: u.setPath(rest).
setPath(u, path) ==
    IF BadEscape(path, FALSE) THEN [EmptyURL EXCEPT !.err = "invalid URL escape"]
    ELSE [u EXCEPT !.Path = path]

\* url.parse, for a rest that starts with "//": the authority up to the next
\* slash is the host, what follows it is the path.
parseHostPath(u, authority, afterSlashes) ==
    IF parseHostErr(authority) # "" THEN [EmptyURL EXCEPT !.err = parseHostErr(authority)]
    ELSE setPath([u EXCEPT !.Host = authority],
                 SubSeq(afterSlashes, Len(authority) + 1, Len(afterSlashes)))

\* url.parse, after scheme and query have been cut off.
parseRest(u, rest) ==
    IF ~HasPrefix(rest, "/") /\ u.Scheme # "" THEN [u EXCEPT !.Opaque = rest]
    ELSE IF ~HasPrefix(rest, "/") /\ Contains(CutBefore(rest, "/"), ":")
    THEN [EmptyURL EXCEPT !.err = "first path segment in URL cannot contain colon"]
    ELSE IF (u.Scheme # "" \/ ~HasPrefix(rest, "///")) /\ HasPrefix(rest, "//")
    THEN parseHostPath(u, CutBefore(SubSeq(rest, 3, Len(rest)), "/"),
                       SubSeq(rest, 3, Len(rest)))
    ELSE setPath(u, rest)

\* url.parse, after getScheme: the query is cut off.
parseQuery(scheme, rest) ==
    IF HasSuffix(rest, "?") /\ Count(rest, "?") = 1
    THEN parseRest([EmptyURL EXCEPT !.Scheme = scheme, !.ForceQuery = TRUE],
                   SubSeq(rest, 1, Len(rest) - 1))
    ELSE parseRest([EmptyURL EXCEPT !.Scheme = scheme, !.RawQuery = CutAfter(rest, "?")],
                   CutBefore(rest, "?"))

\* url.parse, from the result s of getScheme on.
parseScheme(s) ==
    IF s.err # "" THEN [EmptyURL EXCEPT !.err = s.err]
    ELSE parseQuery(ToLower(s.scheme), s.rest)

\* url.parse(rawURL, viaRequest = false), rawURL without its fragment.
parse(rawURL) == parseScheme(getScheme(rawURL))

\* url.Parse, after the fragment has been cut off and the rest parsed to u.
setFragment(u, frag) ==
    IF u.err # "" THEN u
    ELSE IF BadEscape(frag, FALSE) THEN [EmptyURL EXCEPT !.err = "invalid URL escape"]
    ELSE [u EXCEPT !.Fragment = frag]

\* url.Parse.
Parse(rawURL) == setFragment(parse(CutBefore(rawURL, "#")), CutAfter(rawURL, "#"))

\* URL.String.
String(u) ==
    LET head == IF u.Scheme # "" THEN u.Scheme \o ":" ELSE ""
        slashes == IF (u.Scheme # "" \/ u.Host # "") /\ (u.Host # "" \/ u.Path # "")
                   THEN "//" ELSE ""
        lead == IF u.Path # "" /\ Char(u.Path, 1) # "/" /\ u.Host # "" THEN "/"
                ELSE IF head = "" /\ slashes = "" /\ u.Host = ""
                        /\ Contains(CutBefore(u.Path, "/"), ":") THEN "./"
                ELSE ""
        body == IF u.Opaque # "" THEN head \o u.Opaque
                ELSE head \o slashes \o u.Host \o lead \o u.Path
        query == IF u.ForceQuery \/ u.RawQuery # "" THEN "?" \o u.RawQuery ELSE ""
        frag == IF u.Fragment # "" THEN "#" \o u.Fragment ELSE ""
    IN  body \o query \o frag

-----------------------------------------------------------------------------
(* Client, its options and NewClient.                                      *)

\* An option sets one field of the client.
WithHTTPClient(httpClient) == [field |-> "HTTPClient", value |-> httpClient]
WithUserAgent(userAgent) == [field |-> "UserAgent", value |-> userAgent]
WithDebug(debug) == [field |-> "Debug", value |-> debug]
WithTimeout(timeout) == [field |-> "Timeout", value |-> timeout]
WithAPIKey(apiKey) == [field |-> "APIKey", value |-> apiKey]

\* option(client)
ApplyOption(option, c) == [c EXCEPT ![option.field] = option.value]

\* Durations are in seconds.
DefaultHTTPTimeout == 60
DefaultTimeout == 120

\* The Client literal of NewClient.
DefaultClient(url) ==
    [BaseURL    |-> url,
     HTTPClient |-> [Timeout |-> DefaultHTTPTimeout],
     UserAgent  |-> "Go-PyPDFToTextClient/1.0",
     Debug      |-> FALSE,
     Timeout    |-> DefaultTimeout,
     APIKey     |-> ""]

\* The options applied last to first.
RECURSIVE ApplyOptionsReversed(_, _)
ApplyOptionsReversed(c, opts) ==
    IF opts = <<>> THEN c
    ELSE ApplyOption(Head(opts), ApplyOptionsReversed(c, Tail(opts)))

\* for _, option := range options { option(client) }
RECURSIVE ApplyOptions(_, _)
ApplyOptions(c, opts) ==
    IF opts = <<>> THEN c ELSE ApplyOptions(ApplyOption(Head(opts), c), Tail(opts))

\* NewClient from the result of url.Parse on.
NewClientOf(parsedURL, opts) ==
    IF parsedURL.err # ""
    THEN [client |-> Nil,
          err |-> [msg |-> "invalid base URL", cause |-> parsedURL.err],
          applied |-> <<>>]
    ELSE [client |-> ApplyOptions(
                         DefaultClient(String([parsedURL EXCEPT !.Path = TrimSuffix(@, "/")])),
                         opts),
          err |-> Nil,
          applied |-> opts]

\* if !strings.Contains(baseURL, "://") { baseURL = "http://" + baseURL }
DefaultScheme(url) == IF ~Contains(url, "://") THEN "http://" \o url ELSE url

\* NewClient keeping the text of the URL, less one trailing slash.
NewClient_TrimText(url, opts) ==
    IF Parse(DefaultScheme(url)).err # "" THEN NewClientOf(Parse(DefaultScheme(url)), opts)
    ELSE [client |-> ApplyOptions(DefaultClient(TrimSuffix(DefaultScheme(url), "/")), opts),
          err |-> Nil,
          applied |-> opts]

\* NewClient running the options before it looks at the URL.
NewClient_OptionsFirst(url, opts) ==
    [NewClientOf(Parse(DefaultScheme(url)), opts) EXCEPT !.applied = opts]

\* NewClient(baseURL, options...): [client, err, applied], applied being the
\* options NewClient has called, in the order of the calls.
NewClient(url, opts) == NewClientOf(Parse(DefaultScheme(url)), opts)

-----------------------------------------------------------------------------
(* Construction: NewClient called once, on a base URL put together from    *)
(* the parts below and on at most MaxOptions options.                      *)

MaxOptions == 2

URLPrefixes == {"", "http://", "HTTPS://"}
URLHosts == {"localhost:8000", "Example.com", ":%invalid:"}
URLPaths == {"", "/", "/api/"}
URLSuffixes == {"", "?q=a/", "#sec/"}

URLInputs ==
    {p \o h \o pa \o q :
        p \in URLPrefixes, h \in URLHosts, pa \in URLPaths, q \in URLSuffixes}
    \cup {"://localhost", "host:8x", "http://localhost:8000/api"}

OptionValues ==
    {WithHTTPClient([Timeout |-> 10]), WithUserAgent("MyApp/1.0"), WithDebug(TRUE),
     WithTimeout(5), WithTimeout(30), WithAPIKey("secret")}

OptionLists == UNION {[1..n -> OptionValues] : n \in 0..MaxOptions}

InitNewClient ==
    /\ baseURL \in URLInputs
    /\ options \in OptionLists
    /\ client = Nil /\ err = Nil /\ applied = <<>>
    /\ e = NoError /\ verdict = Nil
    /\ response = Nil /\ fullText = Nil
    /\ calls = <<>>

Constructed == client # Nil \/ err # Nil

\* client, err := NewClient(baseURL, options...)
CallNewClient ==
    /\ ~Constructed
    /\ \E r \in {NewClient(baseURL, options)} :
          client' = r.client /\ err' = r.err /\ applied' = r.applied
    /\ UNCHANGED <<baseURL, options, classifyVars, calls, accessorVars>>

NextNewClient == CallNewClient

SpecNewClient == InitNewClient /\ [][NextNewClient]_vars

-----------------------------------------------------------------------------
(* encoding/json, as far as the client uses it. The response bodies of the *)
(* model are the texts of JSONBodies; JSONValue gives the JSON value each  *)
(* of them spells, member by member, or says that it is no JSON text.      *)

Str(k, v) == [key |-> k, type |-> "string", str |-> v, num |-> 0]
Num(k, n) == [key |-> k, type |-> "number", str |-> "", num |-> n]
Arr(k) == [key |-> k, type |-> "array", str |-> "", num |-> 0]
Null(k) == [key |-> k, type |-> "null", str |-> "", num |-> 0]

\* An array member whose elements are the objects {"page": n, "text": s}.
PageArr(k, items) == [key |-> k, type |-> "array", str |-> "", num |-> 0, items |-> items]
PageText(n, text) == [Page |-> n, Text |-> text]

NotJSON == [valid |-> FALSE, kind |-> "", members |-> <<>>]
Object(members) == [valid |-> TRUE, kind |-> "object", members |-> members]

BodyPlain == "Not Found"
BodyEmpty == ""
BodyDetail == "{\"detail\":\"Permission denied accessing gs://b/f\"}"
BodyDetailCapital == "{\"Detail\":\"Blob does not exist\"}"
BodyDetailList == "{\"detail\":[{\"msg\":\"field required\"}]}"
BodyNoDetail == "{\"message\":\"boom\"}"
BodyHealth == "{\"status\":\"ok\",\"version\":\"1.0.0\"}"
BodyText == "{\"text\":\"A\",\"page_count\":1,\"file_name\":\"t.pdf\",\"file_size\":10}"
BodyPages ==
    "{\"pages\":[{\"page\":1,\"text\":\"A\"}],\"page_count\":1,\"file_name\":\"t.pdf\",\"file_size\":10}"
BodyTwoPages ==
    "{\"pages\":[{\"page\":1,\"text\":\"A\"},{\"page\":2,\"text\":\"B\"}],\"page_count\":2,\"file_name\":\"t.pdf\",\"file_size\":10,\"method\":\"pdfplumber\"}"
BodyPagesMiscounted ==
    "{\"pages\":[{\"page\":1,\"text\":\"A\"}],\"page_count\":3,\"file_name\":\"t.pdf\",\"file_size\":10}"
BodyCountAsText == "{\"text\":\"A\",\"page_count\":\"1\"}"

JSONBodies ==
    {BodyPlain, BodyEmpty, BodyDetail, BodyDetailCapital, BodyDetailList, BodyNoDetail,
     BodyHealth, BodyText, BodyPages, BodyTwoPages, BodyPagesMiscounted, BodyCountAsText}

JSONValue(raw) ==
    CASE raw = BodyDetail ->
            Object(<<Str("detail", "Permission denied accessing gs://b/f")>>)
      [] raw = BodyDetailCapital -> Object(<<Str("Detail", "Blob does not exist")>>)
      [] raw = BodyDetailList -> Object(<<Arr("detail")>>)
      [] raw = BodyNoDetail -> Object(<<Str("message", "boom")>>)
      [] raw = BodyHealth -> Object(<<Str("status", "ok"), Str("version", "1.0.0")>>)
      [] raw = BodyText ->
            Object(<<Str("text", "A"), Num("page_count", 1), Str("file_name", "t.pdf"),
                     Num("file_size", 10)>>)
      [] raw = BodyPages ->
            Object(<<PageArr("pages", <<PageText(1, "A")>>), Num("page_count", 1),
                     Str("file_name", "t.pdf"), Num("file_size", 10)>>)
      [] raw = BodyTwoPages ->
            Object(<<PageArr("pages", <<PageText(1, "A"), PageText(2, "B")>>),
                     Num("page_count", 2), Str("file_name", "t.pdf"), Num("file_size", 10),
                     Str("method", "pdfplumber")>>)
      [] raw = BodyPagesMiscounted ->
            Object(<<PageArr("pages", <<PageText(1, "A")>>), Num("page_count", 3),
                     Str("file_name", "t.pdf"), Num("file_size", 10)>>)
      [] raw = BodyCountAsText -> Object(<<Str("text", "A"), Str("page_count", "1")>>)
      [] OTHER -> NotJSON

\* The struct field a JSON key is stored to: the field whose tag is the key, else
\* a field whose tag equals the key when letter case is ignored; "" if none.
FieldFor(schema, key) ==
    LET folds == {t \in DOMAIN schema : Len(t) = Len(key) /\ ToLower(t) = ToLower(key)}
    IN  IF key \in DOMAIN schema THEN key
        ELSE IF folds # {} THEN CHOOSE t \in folds : TRUE
        ELSE ""

ZeroValue(schema) ==
    [t \in DOMAIN schema |->
        CASE schema[t] = "number" -> 0 [] schema[t] = "array" -> <<>> [] OTHER -> ""]

\* The Go value of a JSON member.
ValueOf(m) ==
    CASE m.type = "number" -> m.num [] m.type = "array" -> m.items [] OTHER -> m.str

\* The members of an object stored one after the other into the struct st:
\* [value, typeError]. A member of another type than its field is an
\* UnmarshalTypeError: the field is left alone and decoding goes on.
RECURSIVE DecodeMembers(_, _, _)
DecodeMembers(members, schema, st) ==
    IF members = <<>> THEN st
    ELSE LET m == Head(members)
             f == FieldFor(schema, m.key)
             next ==
                 IF f = "" \/ m.type = "null" THEN st
                 ELSE IF m.type # schema[f] THEN [st EXCEPT !.typeError = TRUE]
                 ELSE [st EXCEPT !.value[f] = ValueOf(m)]
         IN  DecodeMembers(Tail(members), schema, next)

\* json.Unmarshal(body, &v) and json.NewDecoder(body).Decode(&v) for a struct v
\* whose tagged fields are those of schema (tag -> "string" or "number"):
\* [err, value]. err is "" when there is none.
Unmarshal(raw, schema) ==
    LET j == JSONValue(raw)
        r == DecodeMembers(j.members, schema,
                           [value |-> ZeroValue(schema), typeError |-> FALSE])
    IN  IF ~j.valid THEN [err |-> "invalid JSON", value |-> ZeroValue(schema)]
        ELSE IF r.typeError THEN [err |-> "cannot unmarshal", value |-> r.value]
        ELSE [err |-> "", value |-> r.value]

apiErrorSchema == [detail |-> "string"]
HealthSchema == [status |-> "string", version |-> "string"]

\* The pages of a paginated response: Pages []PageText `json:"pages"`.
PagesSchema == [pages |-> "array"]

TextSchema ==
    [text |-> "string", page_count |-> "number", file_name |-> "string",
     file_size |-> "number"] @@ PagesSchema
GCSSchema ==
    [text |-> "string", page_count |-> "number", file_name |-> "string",
     file_size |-> "number", method |-> "string", output_location |-> "string"]
    @@ PagesSchema

HealthResponse(v) == [Status |-> v.status, Version |-> v.version]
\* TextExtractionResponse with the pages counted by the client.
TextExtractionResponse_CountsPages(v) ==
    [Text |-> v.text, PageCount |-> Len(v.pages), FileName |-> v.file_name,
     FileSize |-> v.file_size, Pages |-> v.pages]

TextExtractionResponse(v) ==
    [Text |-> v.text, PageCount |-> v.page_count, FileName |-> v.file_name,
     FileSize |-> v.file_size, Pages |-> v.pages]
GCSExtractionResponse(v) ==
    [Text |-> v.text, PageCount |-> v.page_count, FileName |-> v.file_name,
     FileSize |-> v.file_size, Method |-> v.method, OutputLocation |-> v.output_location,
     Pages |-> v.pages]

\* strings.Join(texts, sep)
RECURSIVE Join(_, _)
Join(texts, sep) ==
    IF texts = <<>> THEN ""
    ELSE IF Len(texts) = 1 THEN texts[1]
    ELSE texts[1] \o sep \o Join(Tail(texts), sep)

\* GetFullText joining the pages with one newline.
GetFullText_OneNewline(result) ==
    IF result.Pages # <<>>
    THEN Join([k \in 1..Len(result.Pages) |-> result.Pages[k].Text], "\n")
    ELSE result.Text

\* GetFullText of TextExtractionResponse and of GCSExtractionResponse: the texts of
\* the pages joined by a blank line when there are pages, the flat text otherwise.
GetFullText(result) ==
    IF result.Pages # <<>>
    THEN Join([k \in 1..Len(result.Pages) |-> result.Pages[k].Text], "\n\n")
    ELSE result.Text

\* GetFullText called once, on a response of either type with a flat text and at
\* most MaxPages pages.
MaxPages == 3

PageTexts == {"", "A", "B\n"}
PageNumbers == {1, 2}
FlatTexts == {"", "flat text"}

PageLists ==
    UNION {[1..n -> {PageText(p, t) : p \in PageNumbers, t \in PageTexts}] : n \in 0..MaxPages}

Responses ==
    {TextExtractionResponse(
         [text |-> t, page_count |-> Len(ps), file_name |-> "t.pdf", file_size |-> 10,
          pages |-> ps]) : t \in FlatTexts, ps \in PageLists}
    \cup
    {GCSExtractionResponse(
         [text |-> t, page_count |-> Len(ps), file_name |-> "t.pdf", file_size |-> 10,
          method |-> "auto", output_location |-> "", pages |-> ps]) :
         t \in FlatTexts, ps \in PageLists}

InitGetFullText ==
    /\ response \in Responses
    /\ fullText = Nil
    /\ e = NoError /\ verdict = Nil
    /\ baseURL = "" /\ options = <<>> /\ client = Nil /\ err = Nil /\ applied = <<>>
    /\ calls = <<>>

\* fullText := response.GetFullText()
CallGetFullText ==
    /\ fullText = Nil
    /\ fullText' = [text |-> GetFullText(response)]
    /\ UNCHANGED <<response, classifyVars, newClientVars, calls>>

NextGetFullText == CallGetFullText

SpecGetFullText == InitGetFullText /\ [][NextGetFullText]_vars

-----------------------------------------------------------------------------
(* The request methods. Every call is a process of its own: it goes from   *)
(* "idle" through the steps of its method to "done", where result and err  *)
(* are what the method returned. The file system, the transport and the    *)
(* server are the environment: os.Open, the read of the source, and        *)
(* HTTPClient.Do end in any of the ways they can end.                      *)

CallIds == {"a", "b"}

NoGCSRequest == [InputGCSURL |-> "", OutputGCSURL |-> <<>>, Method |-> "", ProjectID |-> <<>>]

\* The arguments of a call. ctxDeadline is the deadline of ctx, in seconds from the
\* call, 0 for a context without deadline. A *string is <<>> (nil) or <<s>>.
CallInput(method, ctxDeadline, filePath, readFails, fileName, request) ==
    [method |-> method, ctxDeadline |-> ctxDeadline, filePath |-> filePath,
     readFails |-> readFails, fileName |-> fileName, request |-> request]

ExistingFiles == {"/tmp/test.pdf"}

CallInputs ==
    {CallInput("HealthCheck", 0, "", FALSE, "", NoGCSRequest),
     CallInput("HealthCheck", 20, "", FALSE, "", NoGCSRequest),
     CallInput("ExtractTextFromFile", 0, "/tmp/test.pdf", FALSE, "", NoGCSRequest),
     CallInput("ExtractTextFromFile", 0, "/tmp/missing.pdf", FALSE, "", NoGCSRequest),
     CallInput("ExtractTextFromFile", 0, "/tmp/test.pdf", TRUE, "", NoGCSRequest),
     CallInput("ExtractTextFromBytes", 0, "", FALSE, "doc.pdf", NoGCSRequest),
     CallInput("ExtractTextFromReader", 0, "", FALSE, "doc.pdf", NoGCSRequest),
     CallInput("ExtractTextFromReader", 0, "", TRUE, "doc.pdf", NoGCSRequest),
     CallInput("ExtractTextFromGCS", 0, "", FALSE, "",
               [NoGCSRequest EXCEPT !.InputGCSURL = "gs://b/in.pdf"]),
     CallInput("ExtractTextFromGCS", 0, "", FALSE, "",
               [InputGCSURL |-> "gs://b/in.pdf", OutputGCSURL |-> <<"gs://b/out.txt">>,
                Method |-> "pdfplumber", ProjectID |-> <<>>]),
     CallInput("ExtractTextFromGCS", 0, "", FALSE, "",
               [InputGCSURL |-> "", OutputGCSURL |-> <<"">>,
                Method |-> "", ProjectID |-> <<"my-project">>])}

NoRequest == [Method |-> "", URL |-> "", Header |-> <<>>, Body |-> [kind |-> "none"]]

IdleCall ==
    [pc         |-> "idle",
     in         |-> CallInput("", 0, "", FALSE, "", NoGCSRequest),
     fileName   |-> "",       \* ExtractTextFromReader's fileName
     defers     |-> <<>>,     \* the deferred calls of the method, in the order of defer
     req        |-> NoRequest,\* the request handed to HTTPClient.Do
     sends      |-> 0,        \* how often HTTPClient.Do was called
     elapsed    |-> 0,        \* seconds from Do to the time Do gave up
     resp       |-> Nil,      \* the response Do returned
     fileOpens  |-> 0,        \* os.Open calls that succeeded
     fileCloses |-> 0,        \* file.Close calls
     bodyCloses |-> 0,        \* resp.Body.Close calls
     stdout     |-> <<>>,     \* the lines printed
     result     |-> Nil,
     err        |-> Nil]

ResponseStatuses == {StatusOK, 201, StatusNotFound}

\* filepath.Base, for a path that does not end in a slash.
Base(path) == SubSeq(path, LastIndex(path, "/") + 1, Len(path))

Multipart(fileName) == [kind |-> "multipart", field |-> "file", fileName |-> fileName]

\* json.Marshal of a GCSExtractionRequest whose pointer fields are not omitempty.
MarshalGCSRequest_Null(request) ==
    <<Str("input_gcs_url", request.InputGCSURL)>>
    \o (IF request.OutputGCSURL # <<>>
        THEN <<Str("output_gcs_url", request.OutputGCSURL[1])>>
        ELSE <<Null("output_gcs_url")>>)
    \o (IF request.Method # "" THEN <<Str("method", request.Method)>> ELSE <<>>)
    \o (IF request.ProjectID # <<>>
        THEN <<Str("project_id", request.ProjectID[1])>> ELSE <<Null("project_id")>>)

\* json.Marshal(request) of a GCSExtractionRequest: the members written.
MarshalGCSRequest(request) ==
    <<Str("input_gcs_url", request.InputGCSURL)>>
    \o (IF request.OutputGCSURL # <<>>
        THEN <<Str("output_gcs_url", request.OutputGCSURL[1])>> ELSE <<>>)
    \o (IF request.Method # "" THEN <<Str("method", request.Method)>> ELSE <<>>)
    \o (IF request.ProjectID # <<>>
        THEN <<Str("project_id", request.ProjectID[1])>> ELSE <<>>)

\* req.Header.Set(name, value)
SetHeader(h, name, value) ==
    [n \in DOMAIN h \cup {name} |-> IF n = name THEN value ELSE h[n]]

\* CommonHeaders setting both headers whatever their values.
CommonHeaders_Always(c, h) ==
    SetHeader(SetHeader(h, "User-Agent", c.UserAgent), "X-API-Key", c.APIKey)

\* The User-Agent and X-API-Key headers every method sets.
CommonHeaders(c, h) ==
    LET withUA == IF c.UserAgent # "" THEN SetHeader(h, "User-Agent", c.UserAgent) ELSE h
    IN  IF c.APIKey # "" THEN SetHeader(withUA, "X-API-Key", c.APIKey) ELSE withUA

\* The request a method builds, from http.NewRequestWithContext to the last header.
RequestOf(c, call) ==
    CASE call.in.method = "HealthCheck" ->
            [Method |-> "GET", URL |-> c.BaseURL \o "/health",
             Header |-> CommonHeaders(c, <<>>), Body |-> [kind |-> "none"]]
      [] call.in.method = "ExtractTextFromGCS" ->
            [Method |-> "POST", URL |-> c.BaseURL \o "/extract-from-gcs",
             Header |-> CommonHeaders(c, SetHeader(<<>>, "Content-Type", "application/json")),
             Body |-> [kind |-> "json",
                       members |-> MarshalGCSRequest(
                           IF call.in.request.Method = ""
                           THEN [call.in.request EXCEPT !.Method = "auto"]
                           ELSE call.in.request)]]
      [] OTHER ->
            [Method |-> "POST", URL |-> c.BaseURL \o "/extract",
             Header |-> CommonHeaders(c, SetHeader(<<>>, "Content-Type",
                                                   "multipart/form-data; boundary=x")),
             Body |-> Multipart(call.fileName)]

\* The line a method prints before Do when Debug is set.
DebugLine(c, call) ==
    IF c.Debug
    THEN <<"DEBUG: Making request to " \o RequestOf(c, call).URL \o
           (CASE call.in.method = "HealthCheck" -> ""
              [] call.in.method = "ExtractTextFromGCS" ->
                    " with GCS URL " \o call.in.request.InputGCSURL
              [] OTHER -> " with file " \o call.fileName)>>
    ELSE <<>>

\* A deferred call runs.
RunDefer(call, d) ==
    IF d = "file.Close" THEN [call EXCEPT !.fileCloses = @ + 1]
    ELSE [call EXCEPT !.bodyCloses = @ + 1]

\* The deferred calls run, the last deferred first.
RECURSIVE RunDefers(_)
RunDefers(call) ==
    IF call.defers = <<>> THEN call
    ELSE LET n == Len(call.defers)
         IN  RunDefers(RunDefer([call EXCEPT !.defers = SubSeq(@, 1, n - 1)],
                                call.defers[n]))

\* Return forgetting the deferred calls.
Return_NoDefers(call, res, er) == [call EXCEPT !.pc = "done", !.result = res, !.err = er]

\* return result, err
Return(call, res, er) ==
    RunDefers([call EXCEPT !.pc = "done", !.result = res, !.err = er])

Error(msg) == [msg |-> msg]
IsClientError(er) == "StatusCode" \in DOMAIN er

\* ErrorOf giving up on a body that is no JSON.
ErrorOf_DecodeFails(resp) ==
    LET apiError == Unmarshal(resp.Body, apiErrorSchema)
    IN  IF apiError.err # "" THEN Error("error decoding response")
        ELSE ClientError(resp.StatusCode, resp.Body, apiError.value.detail)

\* The non-200 branch of a method: the ClientError made of the response.
ErrorOf(resp) ==
    LET apiError == Unmarshal(resp.Body, apiErrorSchema)
        detail == IF apiError.err = "" /\ apiError.value.detail # ""
                  THEN apiError.value.detail ELSE ""
    IN  ClientError(resp.StatusCode, resp.Body, detail)

\* An error test that accepts every 2xx status.
IsErrorStatus_Not2xx(status) == status < 200 \/ status > 299

\* resp.StatusCode != http.StatusOK
IsErrorStatus(status) == status # StatusOK

\* The schema and the response type of a method.
SchemaOf(method) ==
    CASE method = "HealthCheck" -> HealthSchema
      [] method = "ExtractTextFromGCS" -> GCSSchema
      [] OTHER -> TextSchema

ResponseOf(method, v) ==
    CASE method = "HealthCheck" -> HealthResponse(v)
      [] method = "ExtractTextFromGCS" -> GCSExtractionResponse(v)
      [] OTHER -> TextExtractionResponse(v)

\* The 200 branch returning the struct whatever the decoder said.
Decoded_IgnoresError(call) ==
    [result |-> ResponseOf(call.in.method,
                           Unmarshal(call.resp.Body, SchemaOf(call.in.method)).value),
     err |-> Nil]

\* The 200 branch of a method: [result, err].
Decoded(call) ==
    LET schema == CASE call.in.method = "HealthCheck" -> HealthSchema
                    [] call.in.method = "ExtractTextFromGCS" -> GCSSchema
                    [] OTHER -> TextSchema
        d == Unmarshal(call.resp.Body, schema)
    IN  IF d.err # "" THEN [result |-> Nil, err |-> Error("error decoding response")]
        ELSE [result |-> CASE call.in.method = "HealthCheck" -> HealthResponse(d.value)
                           [] call.in.method = "ExtractTextFromGCS" ->
                                 GCSExtractionResponse(d.value)
                           [] OTHER -> TextExtractionResponse(d.value),
              err |-> Nil]

\* The clients the calls are made on: NewClient's results for these arguments.
ClientSetups ==
    {<<"localhost:8000", <<>>>>,
     <<"http://localhost:8000/", <<WithTimeout(5), WithAPIKey("secret"), WithDebug(TRUE)>>>>,
     <<"https://pdf.example.com", <<WithHTTPClient([Timeout |-> 0]), WithUserAgent("")>>>>}

Init ==
    /\ \E setup \in ClientSetups :
          /\ baseURL = setup[1] /\ options = setup[2]
          /\ \E r \in {NewClient(setup[1], setup[2])} :
                client = r.client /\ err = r.err /\ applied = r.applied
    /\ calls = [i \in CallIds |-> IdleCall]
    /\ e = NoError /\ verdict = Nil
    /\ response = Nil /\ fullText = Nil

\* The steps of a call, each taking the call's own state (and, where the code
\* reads it, the client) to the state after the step.

\* The method is entered with the arguments in.
Entered(call, in) ==
    [call EXCEPT !.in = in,
                 !.fileName = in.fileName,
                 !.pc = CASE in.method = "ExtractTextFromFile" -> "open"
                          [] in.method \in {"ExtractTextFromBytes", "ExtractTextFromReader"}
                                -> "build"
                          [] OTHER -> "request"]

\* ExtractTextFromFile: os.Open, and on success the deferred file.Close and the
\* call of ExtractTextFromReader with the file and the base name of the path.
Opened(call) ==
    IF call.in.filePath \in ExistingFiles
    THEN [call EXCEPT !.fileOpens = @ + 1,
                      !.defers = Append(@, "file.Close"),
                      !.fileName = Base(call.in.filePath),
                      !.pc = "build"]
    ELSE Return(call, Nil, Error("error opening file"))

\* BuildBody with a request made of whatever was copied before the read failed.
Built_SendsAnyway(call) == [call EXCEPT !.pc = "request"]

\* ExtractTextFromReader: the multipart body is written: CreateFormFile, io.Copy
\* from the reader, writer.Close.
Built(call) ==
    IF call.in.readFails
    THEN Return(call, Nil, Error("error copying file data"))
    ELSE [call EXCEPT !.pc = "request"]

\* Sent on a client whose Debug flag makes it print the request in place of
\* sending it.
Sent_DebugDryRun(c, call) ==
    IF c.Debug
    THEN Return([call EXCEPT !.stdout = @ \o DebugLine(c, call)], Nil, Error("debug: not sent"))
    ELSE [call EXCEPT !.req = RequestOf(c, call), !.sends = @ + 1, !.pc = "wait"]

\* The request is made, printed when Debug is set, and handed to HTTPClient.Do.
Sent(c, call) ==
    [call EXCEPT !.req = RequestOf(c, call),
                 !.stdout = @ \o DebugLine(c, call),
                 !.sends = @ + 1,
                 !.pc = "wait"]

\* A transport error answered by another attempt.
Failed_Retry(call) == [call EXCEPT !.pc = "request"]

\* Do returns an error: the connection failed.
Failed(call) == Return(call, Nil, Error("error making request"))

\* The deadlines that bound a request in flight: the Timeout of the http.Client
\* (0: none) and the deadline of ctx (0: none).
Deadlines(c, call) == {c.HTTPClient.Timeout, call.in.ctxDeadline} \ {0}

Min(S) == CHOOSE x \in S : \A y \in S : x <= y

\* The server does not answer: Do gives up when the first deadline has passed.
Expired(c, call) ==
    Return([call EXCEPT !.elapsed = Min(Deadlines(c, call))],
           Nil, Error("error making request: deadline exceeded"))

\* Do returns the response of the server; its Body.Close is deferred.
Responded(call, status, body) ==
    [call EXCEPT !.resp = [StatusCode |-> status, Body |-> body],
                 !.defers = Append(@, "Body.Close"),
                 !.pc = "response"]

\* ReturnDecoded forgetting the error of the decoder.
ReturnDecoded_DropsError(call, d) == Return(call, d.result, Nil)

\* The result and the error of the 200 branch, returned.
ReturnDecoded(call, d) == Return(call, d.result, d.err)

\* The method looks at the response and returns.
Finished(call) ==
    IF IsErrorStatus(call.resp.StatusCode)
    THEN Return(call, Nil, ErrorOf(call.resp))
    ELSE ReturnDecoded(call, Decoded(call))

\* A goroutine calls a method of client.
Call(i, in) ==
    /\ calls[i].pc = "idle"
    /\ calls' = [calls EXCEPT ![i] = Entered(@, in)]
    /\ UNCHANGED <<classifyVars, newClientVars, accessorVars>>

OpenFile(i) ==
    /\ calls[i].pc = "open"
    /\ calls' = [calls EXCEPT ![i] = Opened(@)]
    /\ UNCHANGED <<classifyVars, newClientVars, accessorVars>>

BuildBody(i) ==
    /\ calls[i].pc = "build"
    /\ calls' = [calls EXCEPT ![i] = Built(@)]
    /\ UNCHANGED <<classifyVars, newClientVars, accessorVars>>

\* Do keeping the URL of the request in the client.
Do_KeepsURL(i) ==
    /\ calls[i].pc = "request"
    /\ calls' = [calls EXCEPT ![i] = Sent(client, @)]
    /\ client' = [client EXCEPT !.BaseURL = RequestOf(client, calls[i]).URL]
    /\ UNCHANGED <<classifyVars, baseURL, options, err, applied, accessorVars>>

Do(i) ==
    /\ calls[i].pc = "request"
    /\ calls' = [calls EXCEPT ![i] = Sent(client, @)]
    /\ UNCHANGED <<classifyVars, newClientVars, accessorVars>>

TransportError(i) ==
    /\ calls[i].pc = "wait"
    /\ calls' = [calls EXCEPT ![i] = Failed(@)]
    /\ UNCHANGED <<classifyVars, newClientVars, accessorVars>>

DeadlineExceeded(i) ==
    /\ calls[i].pc = "wait"
    /\ Deadlines(client, calls[i]) # {}
    /\ calls' = [calls EXCEPT ![i] = Expired(client, @)]
    /\ UNCHANGED <<classifyVars, newClientVars, accessorVars>>

Respond(i, status, body) ==
    /\ calls[i].pc = "wait"
    /\ calls' = [calls EXCEPT ![i] = Responded(@, status, body)]
    /\ UNCHANGED <<classifyVars, newClientVars, accessorVars>>

Finish(i) ==
    /\ calls[i].pc = "response"
    /\ calls' = [calls EXCEPT ![i] = Finished(@)]
    /\ UNCHANGED <<classifyVars, newClientVars, accessorVars>>

Next ==
    \E i \in CallIds :
        \/ \E in \in CallInputs : Call(i, in)
        \/ OpenFile(i)
        \/ BuildBody(i)
        \/ Do(i)
        \/ TransportError(i)
        \/ DeadlineExceeded(i)
        \/ \E status \in ResponseStatuses, body \in JSONBodies : Respond(i, status, body)
        \/ Finish(i)

Spec == Init /\ [][Next]_vars

-----------------------------------------------------------------------------
(* Two runs side by side: call "a" is made on client, call "b" on a client *)
(* that differs from it in the Debug flag alone. Both are the same call,   *)
(* with the same arguments, and meet the same file system, transport and   *)
(* server: every step is taken by both.                                    *)

Twin(c) == [c EXCEPT !.Debug = ~c.Debug]

ClientOf(i) == IF i = "a" THEN client ELSE Twin(client)

PairCall(in) ==
    /\ calls["a"].pc = "idle"
    /\ calls' = [i \in CallIds |-> Entered(calls[i], in)]
    /\ UNCHANGED <<classifyVars, newClientVars, accessorVars>>

PairOpenFile ==
    /\ calls["a"].pc = "open"
    /\ calls' = [i \in CallIds |-> Opened(calls[i])]
    /\ UNCHANGED <<classifyVars, newClientVars, accessorVars>>

PairBuildBody ==
    /\ calls["a"].pc = "build"
    /\ calls' = [i \in CallIds |-> Built(calls[i])]
    /\ UNCHANGED <<classifyVars, newClientVars, accessorVars>>

PairDo ==
    /\ calls["a"].pc = "request"
    /\ calls' = [i \in CallIds |-> Sent(ClientOf(i), calls[i])]
    /\ UNCHANGED <<classifyVars, newClientVars, accessorVars>>

PairTransportError ==
    /\ calls["a"].pc = "wait"
    /\ calls' = [i \in CallIds |-> Failed(calls[i])]
    /\ UNCHANGED <<classifyVars, newClientVars, accessorVars>>

PairDeadlineExceeded ==
    /\ calls["a"].pc = "wait"
    /\ Deadlines(client, calls["a"]) # {}
    /\ calls' = [i \in CallIds |-> Expired(ClientOf(i), calls[i])]
    /\ UNCHANGED <<classifyVars, newClientVars, accessorVars>>

PairRespond(status, body) ==
    /\ calls["a"].pc = "wait"
    /\ calls' = [i \in CallIds |-> Responded(calls[i], status, body)]
    /\ UNCHANGED <<classifyVars, newClientVars, accessorVars>>

PairFinish ==
    /\ calls["a"].pc = "response"
    /\ calls' = [i \in CallIds |-> Finished(calls[i])]
    /\ UNCHANGED <<classifyVars, newClientVars, accessorVars>>

NextDebug ==
    \/ \E in \in CallInputs : PairCall(in)
    \/ PairOpenFile
    \/ PairBuildBody
    \/ PairDo
    \/ PairTransportError
    \/ PairDeadlineExceeded
    \/ \E status \in ResponseStatuses, body \in JSONBodies : PairRespond(status, body)
    \/ PairFinish

SpecDebug == Init /\ [][NextDebug]_vars

-----------------------------------------------------------------------------
(* Claims about the classifier predicates (checked under SpecClassify).    *)

\* p occurs in d: some suffix of d starts with p.
Occurs(d, p) == \E k \in 1..(Len(d) + 1) : HasPrefix(SubSeq(d, k, Len(d)), p)
OccursAny(d, ps) == \E p \in ps : Occurs(d, p)

\* "Invalid ... format": the word Invalid with the word format somewhere after it.
OccursInvalidFormat(d) ==
    \E k \in 1..(Len(d) + 1) :
        /\ HasPrefix(SubSeq(d, k, Len(d)), "Invalid")
        /\ Occurs(SubSeq(d, k + Len("Invalid"), Len(d)), "format")

\* The substrings of the table of section 4.5 of the specification.
TableInvalidPDF ==
    {"syntax errors", "corrupted", "incomplete or truncated", "does not appear to be a valid"}
\* The substrings the code looks for.
CodeInvalidPDF ==
    {"PDF file has syntax errors", "PDF file appears to be corrupted",
     "PDF file is incomplete or truncated", "Invalid PDF format",
     "file does not appear to be a valid PDF"}
CodeNotFound == {"not found", "does not exist"}

Classified == verdict # Nil

\* C1 (as claimed): every predicate is true exactly when the status is the one of
\* its table row AND the detail contains one of the row's substrings.
C1_TableConjunction ==
    Classified =>
        /\ verdict.invalidPDF =
              (e.StatusCode = 400
                /\ (OccursAny(e.Detail, TableInvalidPDF) \/ OccursInvalidFormat(e.Detail)))
        /\ verdict.timeout = (e.StatusCode = 408 /\ Occurs(e.Detail, "timed out"))
        /\ verdict.fileSize = (e.StatusCode = 413 /\ Occurs(e.Detail, "File too large"))
        /\ verdict.gcsPermission =
              (e.StatusCode = 403 /\ Occurs(e.Detail, "Permission denied"))
        /\ verdict.gcsNotFound = (e.StatusCode = 404 /\ OccursAny(e.Detail, CodeNotFound))

\* C1 (amended): IsInvalidPDFError, IsGCSPermissionError and IsGCSNotFoundError are
\* true exactly when the status matches AND the detail contains one of the code's
\* (full) phrases; IsTimeoutError and IsFileSizeError are true exactly when the
\* status matches OR the detail contains the phrase.
C1_CodeTable ==
    Classified =>
        /\ verdict.invalidPDF = (e.StatusCode = 400 /\ OccursAny(e.Detail, CodeInvalidPDF))
        /\ verdict.timeout = (e.StatusCode = 408 \/ Occurs(e.Detail, "timed out"))
        /\ verdict.fileSize = (e.StatusCode = 413 \/ Occurs(e.Detail, "File too large"))
        /\ verdict.gcsPermission =
              (e.StatusCode = 403 /\ Occurs(e.Detail, "Permission denied"))
        /\ verdict.gcsNotFound = (e.StatusCode = 404 /\ OccursAny(e.Detail, CodeNotFound))

\* C1 witness: a 408 whose detail does not say "timed out" (status match, detail
\* mismatch) was classified a timeout.
C1_Witness ==
    /\ Classified
    /\ e.StatusCode = 408 /\ ~Occurs(e.Detail, "timed out") /\ verdict.timeout

\* C2 (as claimed): a 403 "Permission denied" satisfies IsGCSPermissionError only,
\* a 404 "does not exist" satisfies IsGCSNotFoundError only, a 500 satisfies
\* neither GCS predicate: at most one classifier holds for one error value.
C2_OnlyOneClassifier ==
    Classified =>
        /\ (e.StatusCode = 403 /\ Occurs(e.Detail, "Permission denied")) =>
              (verdict = [invalidPDF |-> FALSE, timeout |-> FALSE, fileSize |-> FALSE,
                          gcsPermission |-> TRUE, gcsNotFound |-> FALSE])
        /\ (e.StatusCode = 404 /\ Occurs(e.Detail, "does not exist")) =>
              (verdict = [invalidPDF |-> FALSE, timeout |-> FALSE, fileSize |-> FALSE,
                          gcsPermission |-> FALSE, gcsNotFound |-> TRUE])
        /\ e.StatusCode = 500 => (~verdict.gcsPermission /\ ~verdict.gcsNotFound)
        /\ Cardinality({f \in DOMAIN verdict : verdict[f]}) <= 1

\* C2 (amended): a 403 "Permission denied" satisfies IsGCSPermissionError and
\* neither IsInvalidPDFError nor IsGCSNotFoundError, a 404 "does not exist"
\* satisfies IsGCSNotFoundError and neither IsInvalidPDFError nor
\* IsGCSPermissionError; in both cases IsTimeoutError / IsFileSizeError hold exactly
\* when the detail also contains "timed out" / "File too large". A 500 satisfies
\* neither GCS predicate, and at most one of the three status-bound predicates
\* holds for one error value.
C2_OnlyOneStatusBound ==
    Classified =>
        /\ (e.StatusCode = 403 /\ Occurs(e.Detail, "Permission denied")) =>
              /\ verdict.gcsPermission /\ ~verdict.invalidPDF /\ ~verdict.gcsNotFound
              /\ verdict.timeout = Occurs(e.Detail, "timed out")
              /\ verdict.fileSize = Occurs(e.Detail, "File too large")
        /\ (e.StatusCode = 404 /\ Occurs(e.Detail, "does not exist")) =>
              /\ verdict.gcsNotFound /\ ~verdict.invalidPDF /\ ~verdict.gcsPermission
              /\ verdict.timeout = Occurs(e.Detail, "timed out")
              /\ verdict.fileSize = Occurs(e.Detail, "File too large")
        /\ e.StatusCode = 500 => (~verdict.gcsPermission /\ ~verdict.gcsNotFound)
        /\ Cardinality({f \in {"invalidPDF", "gcsPermission", "gcsNotFound"} : verdict[f]}) <= 1

\* C2 witness: a 403 "Permission denied" whose detail also says "timed out" was
\* classified a permission error and a timeout, and no not-found error.
C2_Witness ==
    /\ Classified /\ e.StatusCode = 403
    /\ Occurs(e.Detail, "Permission denied") /\ Occurs(e.Detail, "timed out")
    /\ verdict.gcsPermission /\ verdict.timeout /\ ~verdict.gcsNotFound

\* The error values that differ from ce in the letter case of Detail only.
CaseVariants(ce) ==
    {[ce EXCEPT !.Detail = ToLower(@)], [ce EXCEPT !.Detail = ToUpper(@)]}

\* C3 (as claimed): the match is case-insensitive: an error that differs from e
\* only in the letter case of Detail gets the same five answers as e.
C3_CaseInsensitive ==
    Classified => \A e2 \in CaseVariants(e) : Verdict(e2) = verdict

\* d holds one of the phrases ps, but only in another letter case.
FoldOnly(d, ps) ==
    /\ ~OccursAny(d, ps)
    /\ LET folded == ToLower(d) IN \E p \in ps : Contains(folded, ToLower(p))

\* C3 (amended): the match is case-sensitive: a detail that holds the code's
\* phrases only in another letter case does not satisfy the detail condition, so
\* (403, "permission denied") is no permission error and (404, "Not Found") no
\* not-found error; such a detail leaves IsTimeoutError / IsFileSizeError to the
\* status alone.
C3_CaseSensitive ==
    Classified =>
        /\ FoldOnly(e.Detail, CodeInvalidPDF) => ~verdict.invalidPDF
        /\ FoldOnly(e.Detail, {"Permission denied"}) => ~verdict.gcsPermission
        /\ FoldOnly(e.Detail, CodeNotFound) => ~verdict.gcsNotFound
        /\ FoldOnly(e.Detail, {"timed out"}) => (verdict.timeout = (e.StatusCode = 408))
        /\ FoldOnly(e.Detail, {"File too large"}) =>
              (verdict.fileSize = (e.StatusCode = 413))

\* C3 witness: a 404 whose detail says "Not Found", and "not found" in no other
\* place, was classified as no not-found error.
C3_Witness ==
    /\ Classified /\ e.StatusCode = 404
    /\ Occurs(e.Detail, "Not Found") /\ ~OccursAny(e.Detail, CodeNotFound)
    /\ ~verdict.gcsNotFound

-----------------------------------------------------------------------------
(* Claims about NewClient (checked under SpecNewClient).                   *)

\* The base URL after the scheme default.
WithScheme(url) == IF Occurs(url, "://") THEN url ELSE "http://" \o url

\* The first position of s holding ? or #, Len(s) + 1 if there is none.
QueryStart(s) ==
    LET at == {i \in 1..Len(s) : Char(s, i) \in {"?", "#"}}
    IN  IF at = {} THEN Len(s) + 1 ELSE CHOOSE i \in at : \A j \in at : i <= j

\* C7 (as claimed): the stored BaseURL is "http://" + input, less a trailing slash,
\* for an input without "://", and the input less a trailing slash otherwise;
\* nothing else of the input (scheme case, host, path, query) is altered.
C7_TextLessTrailingSlash ==
    client # Nil =>
        client.BaseURL = IF Occurs(baseURL, "://") THEN TrimSuffix(baseURL, "/")
                         ELSE "http://" \o TrimSuffix(baseURL, "/")

\* C7 (amended): the stored BaseURL is the parsed URL written out again: for an
\* input [scheme://]host[/path][?query][#fragment], after the scheme default, it is
\* the scheme in lower case, "://", host and path less ONE trailing slash of the
\* path, and then the query and fragment as they were written (a slash that ends
\* them is kept).
C7_ParsedLessPathSlash ==
    client # Nil =>
        LET full == WithScheme(baseURL)
            main == SubSeq(full, 1, QueryStart(full) - 1)
            tail == SubSeq(full, QueryStart(full), Len(full))
            scheme == CutBefore(main, "://")
            hostPath == TrimSuffix(CutAfter(main, "://"), "/")
        IN  client.BaseURL = ToLower(scheme) \o "://" \o hostPath \o tail

\* C7 witness: an upper-case scheme and a slash at the end of both path and query.
C7_Witness ==
    /\ client # Nil
    /\ baseURL = "HTTPS://Example.com/api/?q=a/"
    /\ client.BaseURL = "https://Example.com/api?q=a/"

\* C8: when the base URL, after the scheme default, cannot be parsed, NewClient
\* returns a nil client and a non-nil error and has applied none of the options;
\* when it can be parsed NewClient returns a non-nil client and a nil error.
C8_ParseErrorNoClientNoOptions ==
    Constructed =>
        IF Parse(WithScheme(baseURL)).err # ""
        THEN client = Nil /\ err # Nil /\ applied = <<>>
        ELSE client # Nil /\ err = Nil

\* C8 witness: the invalid URL of TestNewClient, passed with options.
C8_Witness ==
    /\ Constructed
    /\ baseURL = ":%invalid:" /\ Len(options) > 0
    /\ client = Nil /\ err # Nil /\ applied = <<>>

ClientFields == {"HTTPClient", "UserAgent", "Debug", "Timeout", "APIKey"}

\* The positions of opts that set field f.
Setting(opts, f) == {i \in 1..Len(opts) : opts[i].field = f}
Last(idx) == CHOOSE i \in idx : \A j \in idx : j <= i

\* C9: the options are applied in the order they are passed, after the defaults:
\* every configuration field ends with the value of the last option that sets it,
\* and keeps its default when no option sets it.
C9_LastOptionWins ==
    client # Nil =>
        /\ applied = options
        /\ \A f \in ClientFields :
              IF Setting(options, f) = {}
              THEN client[f] = DefaultClient("")[f]
              ELSE client[f] = options[Last(Setting(options, f))].value

\* C9 witness: two options set the same field to different values.
C9_Witness ==
    /\ client # Nil /\ Len(options) = 2
    /\ options[1].field = options[2].field
    /\ options[1].value # options[2].value
    /\ client[options[2].field] = options[2].value

-----------------------------------------------------------------------------
(* Claims about the request methods (checked under Spec).                  *)

\* The calls that have returned after Do returned a response.
Answered == {i \in CallIds : calls[i].pc = "done" /\ calls[i].resp # Nil}

\* C4 (as claimed): once a response has arrived, the call returns a ClientError if
\* and only if the status is outside 200..299, and the ClientError carries the
\* status and the raw body.
C4_ClientErrorIffNot2xx ==
    \A i \in Answered :
        LET c == calls[i]
        IN  /\ IsClientError(c.err) = (c.resp.StatusCode < 200 \/ c.resp.StatusCode > 299)
            /\ IsClientError(c.err) =>
                  c.err.StatusCode = c.resp.StatusCode /\ c.err.Message = c.resp.Body

\* C4 (amended): once a response has arrived, the call returns a ClientError if and
\* only if the status is not 200 (201 and the other 2xx statuses are errors too);
\* only a 200 response is decoded; the ClientError carries the status and the raw
\* body.
C4_ClientErrorIffNot200 ==
    \A i \in Answered :
        LET c == calls[i]
        IN  /\ IsClientError(c.err) = (c.resp.StatusCode # 200)
            /\ IsClientError(c.err) =>
                  /\ c.err.StatusCode = c.resp.StatusCode
                  /\ c.err.Message = c.resp.Body
                  /\ c.result = Nil
            /\ c.resp.StatusCode = 200 =>
                  \/ c.result # Nil /\ c.err = Nil
                  \/ c.result = Nil /\ c.err = Error("error decoding response")

\* C4 witness: a 201 response came back as a ClientError with status 201.
C4_Witness ==
    \E i \in Answered :
        /\ calls[i].resp.StatusCode = 201
        /\ IsClientError(calls[i].err)
        /\ calls[i].err.StatusCode = 201
        /\ calls[i].err.Message = calls[i].resp.Body

\* The string members of the JSON object raw whose key satisfies match.
DetailMembers(raw, match(_)) ==
    LET j == JSONValue(raw)
    IN  {k \in 1..Len(j.members) : match(j.members[k].key) /\ j.members[k].type = "string"}

\* The detail of a body, the key being told by match; "" if it has none.
DetailBy(raw, match(_)) ==
    IF DetailMembers(raw, match) = {} THEN ""
    ELSE JSONValue(raw).members[CHOOSE k \in DetailMembers(raw, match) : TRUE].str

IsDetail(key) == key = "detail"
IsDetailFold(key) == ToLower(key) = "detail"

\* The calls that returned a ClientError.
Refused == {i \in Answered : IsClientError(calls[i].err)}

\* C5 (as claimed): for every error response Detail is the string of the body's
\* `detail` field when the body is JSON with such a field, and empty otherwise; a
\* body that is no JSON still gives the ClientError; Message is the raw body.
C5_DetailOfBody ==
    /\ \A i \in Answered : calls[i].resp.StatusCode # 200 => i \in Refused
    /\ \A i \in Refused :
          /\ calls[i].err.Detail = DetailBy(calls[i].resp.Body, IsDetail)
          /\ calls[i].err.Message = calls[i].resp.Body

\* C5 (amended): as claimed, except that the `detail` field is found as
\* encoding/json finds it: by its exact key or else by a key that differs from
\* "detail" in letter case only, so {"Detail": "x"} gives the Detail "x".
C5_DetailOfBodyFold ==
    /\ \A i \in Answered : calls[i].resp.StatusCode # 200 => i \in Refused
    /\ \A i \in Refused :
          /\ calls[i].err.Detail = DetailBy(calls[i].resp.Body, IsDetailFold)
          /\ calls[i].err.Message = calls[i].resp.Body

\* C5 witness: a body that is no JSON gave a ClientError with an empty Detail in
\* one call, and a body with the key "Detail" gave its Detail in another.
C5_Witness ==
    /\ \E i \in Refused :
          /\ calls[i].resp.Body = BodyPlain
          /\ calls[i].err = ClientError(calls[i].resp.StatusCode, BodyPlain, "")
    /\ \E i \in Refused :
          /\ calls[i].resp.Body = BodyDetailCapital
          /\ calls[i].err.Detail = "Blob does not exist"

\* The calls that Do gave up on when a deadline had passed.
TimedOut ==
    {i \in CallIds : calls[i].pc = "done"
                       /\ calls[i].err = Error("error making request: deadline exceeded")}

\* C6: with a context without deadline, a request to a server that never answers
\* fails when the client's configured timeout (WithTimeout, or the default
\* Timeout) has passed, and at no other time.
C6_FailsAtConfiguredTimeout ==
    \A i \in TimedOut : calls[i].in.ctxDeadline = 0 => calls[i].elapsed = client.Timeout

\* C10: when a call has returned, the file it opened has been closed exactly once
\* and the body of the response it received has been closed exactly once,
\* whichever way the call ended; nothing is closed that was not opened.
C10_ClosedExactlyOnce ==
    \A i \in CallIds :
        LET c == calls[i]
        IN  /\ c.fileCloses <= c.fileOpens
            /\ c.bodyCloses <= (IF c.resp # Nil THEN 1 ELSE 0)
            /\ c.pc = "done" =>
                  /\ c.fileCloses = c.fileOpens
                  /\ c.bodyCloses = (IF c.resp # Nil THEN 1 ELSE 0)

\* C10 witness: ExtractTextFromFile opened the file, got a 200 response it could
\* not decode, and returned with the file and the body closed once each.
C10_Witness ==
    \E i \in Answered :
        /\ calls[i].in.method = "ExtractTextFromFile"
        /\ calls[i].fileOpens = 1 /\ calls[i].fileCloses = 1 /\ calls[i].bodyCloses = 1
        /\ calls[i].resp.StatusCode = 200
        /\ calls[i].err = Error("error decoding response")

-----------------------------------------------------------------------------
(* Claims about the round trip, the results and the request (checked under *)
(* Spec).                                                                  *)

Returned == {i \in CallIds : calls[i].pc = "done"}

\* The errors a method returns before it has made a request.
SourceErrors == {Error("error opening file"), Error("error copying file data")}

\* C11 (as claimed): every call that has returned has handed exactly one request
\* to the transport, whatever its outcome.
C11_ExactlyOneRoundTrip == \A i \in Returned : calls[i].sends = 1

\* C11 (amended): no call hands more than one request to the transport, whatever
\* the outcome (transport failure, error status, decode failure); a call that has
\* returned has handed over exactly one unless it failed on its source (the file
\* could not be opened, the read failed), and then none.
C11_AtMostOneRoundTrip ==
    \A i \in CallIds :
        LET c == calls[i]
        IN  /\ c.sends <= 1
            /\ c.pc \in {"wait", "response"} => c.sends = 1
            /\ c.pc \in {"idle", "open", "build", "request"} => c.sends = 0
            /\ c.pc = "done" => (c.sends = 0) = (c.err \in SourceErrors)

\* C11 witness: one call has returned after a transport failure, another after a
\* response it could not decode, each after one request; neither sent again.
C11_Witness ==
    \E i, j \in Returned :
        /\ calls[i].err = Error("error making request") /\ calls[i].sends = 1
        /\ calls[j].err = Error("error decoding response") /\ calls[j].sends = 1

\* C12: a call that has returned has returned either a result and no error, or no
\* result and an error, never both and never neither; a call that has not returned
\* has given its caller nothing.
C12_ResultOrError ==
    \A i \in CallIds :
        LET c == calls[i]
        IN  IF c.pc = "done"
            THEN \/ c.result # Nil /\ c.err = Nil
                 \/ c.result = Nil /\ c.err # Nil
            ELSE c.result = Nil /\ c.err = Nil

\* C12 witness: one call has returned a decoded result and no error, another has
\* got a 200 response it could not decode and has returned the error alone.
C12_Witness ==
    \E i, j \in Answered :
        /\ calls[i].result # Nil /\ calls[i].err = Nil
        /\ calls[j].resp.StatusCode = StatusOK
        /\ calls[j].result = Nil /\ calls[j].err = Error("error decoding response")

\* The calls that have returned after a 200 response.
Succeeded == {i \in Answered : calls[i].resp.StatusCode = StatusOK}

\* The Go field of every JSON tag of the response types.
FieldOfTag ==
    [status |-> "Status", version |-> "Version", text |-> "Text",
     page_count |-> "PageCount", file_name |-> "FileName", file_size |-> "FileSize",
     method |-> "Method", output_location |-> "OutputLocation", pages |-> "Pages"]

\* The members of the JSON object j that spell tag, in any letter case.
MembersOf(j, tag) ==
    {k \in 1..Len(j.members) :
        \/ j.members[k].key = tag
        \/ Len(j.members[k].key) = Len(tag) /\ ToLower(j.members[k].key) = tag}

\* The required fields of the response of a method that the JSON object j lacks;
\* the text of an extraction may come as text or as pages.
Lacking(j, method) ==
    LET required == IF method = "HealthCheck" THEN {"status", "version"}
                    ELSE {"page_count", "file_name", "file_size"}
    IN  {t \in required : MembersOf(j, t) = {}}
        \cup (IF method # "HealthCheck" /\ MembersOf(j, "text") = {}
                 /\ MembersOf(j, "pages") = {}
              THEN {"text"} ELSE {})

\* C13 (as claimed): a 200 response whose body is no valid JSON, or lacks a required
\* field of the response type, makes the call return a decode error and no result.
C13_DecodeErrorOnMissingField ==
    \A i \in Succeeded :
        LET c == calls[i]
            j == JSONValue(c.resp.Body)
        IN  (~j.valid \/ Lacking(j, c.in.method) # {}) =>
                c.result = Nil /\ c.err = Error("error decoding response")

\* C13 (amended): a 200 response makes the call return a decode error and no result
\* exactly when its body is no valid JSON or holds a member of another JSON type
\* than the field it is stored to; otherwise the call returns a result in which
\* every field has the value of its member, and the zero value when the body has
\* no member for it.
C13_DecodeErrorOnInvalidOnly ==
    \A i \in Succeeded :
        LET c == calls[i]
            j == JSONValue(c.resp.Body)
            schema == SchemaOf(c.in.method)
            mistyped == {t \in DOMAIN schema :
                            \E k \in MembersOf(j, t) : j.members[k].type # schema[t]}
        IN  IF ~j.valid \/ mistyped # {}
            THEN c.result = Nil /\ c.err = Error("error decoding response")
            ELSE /\ c.result # Nil /\ c.err = Nil
                 /\ \A t \in DOMAIN schema :
                       /\ MembersOf(j, t) = {} =>
                             c.result[FieldOfTag[t]] = ZeroValue(schema)[t]
                       /\ \A k \in MembersOf(j, t) :
                             c.result[FieldOfTag[t]] = ValueOf(j.members[k])

\* C13 witness: HealthCheck has got a 200 response whose JSON has neither status nor
\* version and has returned a HealthResponse with both fields empty; another call
\* has got a 200 response that is no JSON and has returned the decode error.
C13_Witness ==
    \E i, j \in Succeeded :
        /\ calls[i].in.method = "HealthCheck"
        /\ calls[i].resp.Body = BodyNoDetail
        /\ calls[i].result = HealthResponse([status |-> "", version |-> ""])
        /\ calls[i].err = Nil
        /\ calls[j].resp.Body = BodyPlain
        /\ calls[j].result = Nil /\ calls[j].err = Error("error decoding response")

\* The extraction calls that have returned a result with pages.
Paginated ==
    {i \in Succeeded : /\ calls[i].in.method # "HealthCheck"
                       /\ calls[i].result # Nil
                       /\ calls[i].result.Pages # <<>>}

NumberOf(j, tag) ==
    IF MembersOf(j, tag) = {} THEN 0 ELSE j.members[CHOOSE k \in MembersOf(j, tag) : TRUE].num

\* The entries of the pages member of the JSON object j, none if j has no such member.
PagesOf(j) ==
    IF MembersOf(j, "pages") = {} THEN <<>>
    ELSE j.members[CHOOSE k \in MembersOf(j, "pages") : TRUE].items

Sending == {i \in CallIds : calls[i].sends > 0}

\* The members of the JSON body of a request that have the key.
BodyMembers(req, key) ==
    {k \in 1..Len(req.Body.members) : req.Body.members[k].key = key}

\* The JSON body of a request has exactly one member of the key: the string v.
HasMember(req, key, v) ==
    /\ Cardinality(BodyMembers(req, key)) = 1
    /\ \A k \in BodyMembers(req, key) :
          req.Body.members[k].type = "string" /\ req.Body.members[k].str = v

\* C16: the JSON body ExtractTextFromGCS sends always has input_gcs_url, has method
\* "auto" when the request's Method is empty and the caller's method otherwise, and
\* has output_gcs_url and project_id with the caller's value when the pointer is
\* set and not at all (not as null) when it is nil.
C16_GCSRequestBody ==
    \A i \in Sending :
        LET c == calls[i]
            request == c.in.request
        IN  c.in.method = "ExtractTextFromGCS" =>
                /\ c.req.Body.kind = "json"
                /\ HasMember(c.req, "input_gcs_url", request.InputGCSURL)
                /\ HasMember(c.req, "method",
                             IF request.Method = "" THEN "auto" ELSE request.Method)
                /\ IF request.OutputGCSURL = <<>>
                   THEN BodyMembers(c.req, "output_gcs_url") = {}
                   ELSE HasMember(c.req, "output_gcs_url", request.OutputGCSURL[1])
                /\ IF request.ProjectID = <<>>
                   THEN BodyMembers(c.req, "project_id") = {}
                   ELSE HasMember(c.req, "project_id", request.ProjectID[1])
                /\ \A k \in 1..Len(c.req.Body.members) :
                      c.req.Body.members[k].type # "null"

\* C16 witness: one ExtractTextFromGCS call with nothing but the input URL has
\* sent input_gcs_url and method "auto" alone; another, with its own method and
\* an output URL, has sent the three of them.
C16_Witness ==
    \E i, j \in Sending :
        /\ calls[i].in.method = "ExtractTextFromGCS"
        /\ calls[i].in.request = [NoGCSRequest EXCEPT !.InputGCSURL = "gs://b/in.pdf"]
        /\ calls[i].req.Body.members =
              <<Str("input_gcs_url", "gs://b/in.pdf"), Str("method", "auto")>>
        /\ calls[j].in.method = "ExtractTextFromGCS"
        /\ calls[j].in.request.Method = "pdfplumber"
        /\ calls[j].req.Body.members =
              <<Str("input_gcs_url", "gs://b/in.pdf"),
                Str("output_gcs_url", "gs://b/out.txt"), Str("method", "pdfplumber")>>

\* The request has the header name with the value v.
HasHeader(req, name, v) == name \in DOMAIN req.Header /\ req.Header[name] = v

\* C17: every request of every method carries X-API-Key, with the client's key, if
\* and only if the key is not empty, and carries the client's User-Agent if and
\* only if that is not empty; a client made without options sends no X-API-Key.
C17_HeadersWhenConfigured ==
    \A i \in Sending :
        LET req == calls[i].req
        IN  /\ req.URL = client.BaseURL \o
                    (CASE calls[i].in.method = "HealthCheck" -> "/health"
                       [] calls[i].in.method = "ExtractTextFromGCS" -> "/extract-from-gcs"
                       [] OTHER -> "/extract")
            /\ ("X-API-Key" \in DOMAIN req.Header) = (client.APIKey # "")
            /\ client.APIKey # "" => HasHeader(req, "X-API-Key", client.APIKey)
            /\ ("User-Agent" \in DOMAIN req.Header) = (client.UserAgent # "")
            /\ client.UserAgent # "" => HasHeader(req, "User-Agent", client.UserAgent)
            /\ options = <<>> => "X-API-Key" \notin DOMAIN req.Header

\* C17 witness: on a client with an API key, a GET /health and a POST
\* /extract-from-gcs have both gone out with the key and the default user agent.
C17_Witness ==
    \E i, j \in Sending :
        /\ client.APIKey = "secret"
        /\ calls[i].req.Method = "GET" /\ calls[i].in.method = "HealthCheck"
        /\ HasHeader(calls[i].req, "X-API-Key", "secret")
        /\ HasHeader(calls[i].req, "User-Agent", "Go-PyPDFToTextClient/1.0")
        /\ calls[j].req.Method = "POST" /\ calls[j].in.method = "ExtractTextFromGCS"
        /\ HasHeader(calls[j].req, "X-API-Key", "secret")
        /\ HasHeader(calls[j].req, "User-Agent", "Go-PyPDFToTextClient/1.0")

\* What the transport did to a call that has returned, told from what the call
\* holds: the call after its request, taken through that alone.
AfterDo(c, call, sent) ==
    IF call.resp # Nil
    THEN Finished(Responded(sent, call.resp.StatusCode, call.resp.Body))
    ELSE IF call.elapsed > 0 THEN Expired(c, sent)
    ELSE Failed(sent)

\* A call from its source on: the body built, the request sent and answered.
AfterOpen(c, call, opened) ==
    IF opened.pc = "done" THEN opened
    ELSE IF Built(opened).pc = "done" THEN Built(opened)
    ELSE AfterDo(c, call, Sent(c, Built(opened)))

\* The call as it would have ended had it run alone on client c, with the
\* arguments it had and the answer it got.
Alone(c, call) ==
    IF call.in.method = "ExtractTextFromFile"
    THEN AfterOpen(c, call, Opened(Entered(IdleCall, call.in)))
    ELSE IF call.in.method \in {"ExtractTextFromBytes", "ExtractTextFromReader"}
    THEN AfterOpen(c, call, Entered(IdleCall, call.in))
    ELSE AfterDo(c, call, Sent(c, Entered(IdleCall, call.in)))

\* The client NewClient returns for each of the setups.
ClientAsReturned == [setup \in ClientSetups |-> NewClient(setup[1], setup[2]).client]

\* C19: whatever calls run on the client and however their steps interleave, the
\* client keeps every field as NewClient returned it, and a call that has
\* returned has sent, closed, printed and returned what it would have had it run
\* alone on that client with the same arguments and the same answer.
C19_CallsDoNotInterfere ==
    /\ client = ClientAsReturned[<<baseURL, options>>]
    /\ \A i \in Returned : calls[i] = Alone(ClientAsReturned[<<baseURL, options>>], calls[i])

\* C19 witness: on the client with an API key, a HealthCheck has returned its
\* result while an ExtractTextFromFile, its file open and its request sent, has
\* its answer at hand and has not returned yet.
C19_Witness ==
    \E i \in Succeeded, j \in CallIds :
        /\ calls[i].in.method = "HealthCheck"
        /\ calls[i].result = HealthResponse([status |-> "ok", version |-> "1.0.0"])
        /\ calls[j].in.method = "ExtractTextFromFile"
        /\ calls[j].pc = "response" /\ calls[j].fileOpens = 1 /\ calls[j].sends = 1
        /\ client.APIKey = "secret"

\* The methods that send a multipart body made from a source.
UploadMethods == {"ExtractTextFromFile", "ExtractTextFromBytes", "ExtractTextFromReader"}

\* The source of the call cannot be had: the path cannot be opened, or the read of
\* the source fails while the multipart body is written.
SourceFails(call) ==
    /\ call.in.method \in UploadMethods
    /\ \/ call.in.method = "ExtractTextFromFile" /\ call.in.filePath \notin ExistingFiles
       \/ call.in.readFails

\* C20: a call whose source cannot be had returns no result and an error that is
\* no ClientError, and never hands a request to the transport; an upload that has
\* handed over its request had its whole source in the multipart body before, the
\* file opened first when there is one.
C20_SourcedBeforeSent ==
    \A i \in CallIds :
        LET c == calls[i]
        IN  /\ SourceFails(c) =>
                  /\ c.sends = 0 /\ c.req = NoRequest /\ c.resp = Nil
                  /\ c.pc \notin {"request", "wait", "response"}
                  /\ c.pc = "done" =>
                        c.result = Nil /\ c.err \in SourceErrors /\ ~IsClientError(c.err)
            /\ (c.in.method \in UploadMethods /\ c.pc \in {"request", "wait", "response"}) =>
                  /\ ~c.in.readFails
                  /\ c.in.method = "ExtractTextFromFile" => c.fileOpens = 1
            /\ (c.in.method \in UploadMethods /\ c.sends > 0) =>
                  /\ ~SourceFails(c)
                  /\ c.req.Body = Multipart(c.fileName)

\* C20 witness: an ExtractTextFromFile on a path that cannot be opened and an
\* ExtractTextFromReader whose read fails have both returned their error without
\* a request.
C20_Witness ==
    \E i, j \in Returned :
        /\ calls[i].in.method = "ExtractTextFromFile"
        /\ calls[i].err = Error("error opening file") /\ calls[i].sends = 0
        /\ calls[j].in.method = "ExtractTextFromReader"
        /\ calls[j].err = Error("error copying file data") /\ calls[j].sends = 0

-----------------------------------------------------------------------------
(* Claims about the full-text accessor (checked under SpecGetFullText).    *)

\* Where the text of page k starts in the full text, less one: the lengths of the
\* pages before it and of the separators between them.
RECURSIVE PageOffset(_, _)
PageOffset(pages, k) ==
    IF k = 1 THEN 0 ELSE PageOffset(pages, k - 1) + Len(pages[k - 1].Text) + 2

\* C14: GetFullText of a response with pages is the texts of the pages in the order
\* of Pages, with exactly "\n\n" between two consecutive pages and nothing else (one
\* page: its text alone); GetFullText of a response without pages is its Text.
C14_FullTextJoinsPages ==
    fullText # Nil =>
        LET pages == response.Pages
            n == Len(pages)
            full == fullText.text
        IN  IF n = 0 THEN full = response.Text
            ELSE /\ Len(full) = PageOffset(pages, n) + Len(pages[n].Text)
                 /\ \A k \in 1..n :
                       SubSeq(full, PageOffset(pages, k) + 1,
                              PageOffset(pages, k) + Len(pages[k].Text)) = pages[k].Text
                 /\ \A k \in 2..n :
                       SubSeq(full, PageOffset(pages, k) - 1, PageOffset(pages, k)) = "\n\n"

\* C14 witness: the pages "A" and "B\n", numbered 2 and 1, have given "A\n\nB\n"
\* although the flat text is not empty.
C14_Witness ==
    /\ fullText # Nil
    /\ response.Text = "flat text"
    /\ response.Pages = <<PageText(2, "A"), PageText(1, "B\n")>>
    /\ fullText.text = "A\n\nB\n"

-----------------------------------------------------------------------------
(* Claims about the Debug flag (checked under SpecDebug).                  *)

\* A call without what it has printed.
Silent(call) == [call EXCEPT !.stdout = <<>>]

\* C18: the same call on two clients that differ in Debug alone, met by the same
\* file system, transport and server, stands at the same place at every step, has
\* sent the same request (method, URL, headers, body), has opened and closed the
\* same things and returns the same result and the same error; the two differ in
\* nothing but the line the client with Debug prints before it sends.
C18_DebugChangesOutputOnly ==
    /\ Silent(calls["a"]) = Silent(calls["b"])
    /\ \A i \in CallIds :
          calls[i].stdout =
              IF ClientOf(i).Debug /\ calls[i].sends > 0
              THEN <<"DEBUG: Making request to " \o calls[i].req.URL \o
                     (CASE calls[i].in.method = "HealthCheck" -> ""
                        [] calls[i].in.method = "ExtractTextFromGCS" ->
                              " with GCS URL " \o calls[i].in.request.InputGCSURL
                        [] OTHER -> " with file " \o calls[i].fileName)>>
              ELSE <<>>

\* C18 witness: both calls have returned the same ClientError for a 404 response to
\* the same request; one of them has printed its debug line, the other nothing.
C18_Witness ==
    /\ calls["a"].pc = "done" /\ calls["b"].pc = "done"
    /\ IsClientError(calls["a"].err) /\ calls["a"].err.StatusCode = StatusNotFound
    /\ calls["b"].err = calls["a"].err
    /\ calls["b"].req = calls["a"].req /\ calls["a"].sends = 1
    /\ calls["a"].stdout # calls["b"].stdout

====
